---------------------------- MODULE Spec2Model ----------------------------
(***************************************************************************)
(* socket_chat (src/src/main.rs): a 1:1 chat over one TCP connection with  *)
(* two ends, the Listener "L" (mode "server") and the Dialer "D" (mode     *)
(* "client").  A process of the program has a foreground ui_loop and a     *)
(* background task (run_server / run_client, then handle_socket); the two  *)
(* talk through two std::sync::mpsc channels.                              *)
(*                                                                         *)
(* Spec: one end is a process of the program, with everything its user,    *)
(* its terminal and the network can do; the other end is any TCP peer.     *)
(* PairSpec: both ends are processes of the program, connected, each user  *)
(* typing and submitting texts, under the fairness of the two schedulers.  *)
(*                                                                         *)
(* Strings are sequences of one-character strings, so that format!,        *)
(* trim() and lines() are computed, not assumed.  The fixed status lines   *)
(* are one-symbol strings.                                                 *)
(***************************************************************************)
EXTENDS Integers, Sequences, FiniteSets, TLC

\* ------------------------------------------------------------------ bounds
\* Number of characters a user types into texts: those of the texts submitted
\* so far and those in the Input Buffer.
MaxTyped == 2
\* Number of lines a peer that is not this program sends.
MaxPeerLines == 2
\* Bytes one direction of the connection holds before write_all suspends
\* (the socket buffers of the operating system).
WireCap == 6
\* tokio::time::sleep(Duration::from_millis(50)), in time units of 25 ms.
TickLen == 2

Node == {"L", "D"}
Peer(n) == IF n = "L" THEN "D" ELSE "L"
\* args.mode
Mode(n) == IF n = "L" THEN "server" ELSE "client"
\* args.name
Name(n) == IF n = "L" THEN <<"l">> ELSE <<"d">>
\* The characters KeyCode::Char(c) delivers.
Chars == {"a", " "}

\* ------------------------------------------------------------ status lines
ConnectedPeer == <<"--- Connected: {peer} ---">>
ConnectedToServer == <<"--- Connected to server ---">>
ClosedByPeer == <<"--- Connection closed by peer ---">>
ReadError == <<"--- Socket read error: {e} ---">>
WriteError == <<"--- Socket write error: {e} ---">>
Exiting == <<"--- Exiting ---">>
StatusLines == {ConnectedPeer, ConnectedToServer, ClosedByPeer, ReadError,
                WriteError, Exiting}

\* ----------------------------------------------------------------- strings
IsWhite(c) == c \in {" ", "\t", "\n", "\r"}

RECURSIVE TrimStart(_)
TrimStart(s) ==
    IF s # <<>> /\ IsWhite(Head(s)) THEN TrimStart(Tail(s)) ELSE s

RECURSIVE TrimEnd(_)
TrimEnd(s) ==
    IF s # <<>> /\ IsWhite(s[Len(s)])
    THEN TrimEnd(SubSeq(s, 1, Len(s) - 1))
    ELSE s

\* str::trim
Trim(s) == TrimEnd(TrimStart(s))

\* An echo of the trimmed text.
EchoLineTrimmed(name, text) == name \o <<":", " ">> \o Trim(text)
\* format!("{}: {}", my_name, to_send)
EchoLine(name, text) == name \o <<":", " ">> \o text

\* A line of the trimmed text.
WireLineTrimmed(name, msg) == name \o <<":", " ">> \o Trim(msg) \o <<"\n">>
\* format!("{}: {}\n", name, msg)
WireLine(name, msg) == name \o <<":", " ">> \o msg \o <<"\n">>

\* Lines::next_line on the bytes buffered in the inbound half.
HasLine(w) == \E i \in 1..Len(w) : w[i] = "\n"
NewlineAt(w) == CHOOSE i \in 1..Len(w) : w[i] = "\n" /\ \A j \in 1..(i-1) : w[j] # "\n"
StripCr(s) == IF s # <<>> /\ s[Len(s)] = "\r" THEN SubSeq(s, 1, Len(s) - 1) ELSE s
\* A next_line that trims the line it returns.
FirstLineTrimmed(w) == Trim(StripCr(SubSeq(w, 1, NewlineAt(w) - 1)))
FirstLine(w) == StripCr(SubSeq(w, 1, NewlineAt(w) - 1))
AfterFirstLine(w) == SubSeq(w, NewlineAt(w) + 1, Len(w))

\* A pop that removes the first character.
PopFront(s) == IF s = <<>> THEN s ELSE Tail(s)
\* String::pop
Pop(s) == IF s = <<>> THEN s ELSE SubSeq(s, 1, Len(s) - 1)

\* ---------------------------------------------------------------- state
VARIABLES
    appc,      \* main: "start", "run", "exit0" (Ok), "exit1" (Err); an end
               \* that is not this program: "ext", "extclosed"
    netpc,     \* the spawned task: "idle", "bind", "accept", "connect",
               \* "select", "drain", "done" (handle_socket returned), "failed"
    uipc,      \* ui_loop: "off", "loop", "send", "exited" (Ok), "failed" (Err)
    messages,  \* ui_loop's messages: Vec<String>
    input,     \* ui_loop's input: String
    net_chan,  \* the (net_tx, net_rx) channel: texts of NetworkCommand::Send
    ui_chan,   \* the (ui_tx, ui_rx) channel
    wire,      \* wire[n]: bytes sent to n and not yet read by n
    timer,     \* time since the sleep of the current select! was created
    conn,      \* "none", "pending" (connected, not accepted), "up"
    fault,     \* the connection was reset
    sendlog,   \* history: the texts handed to net_tx.send, in order
    written,   \* history: the byte strings write_all wrote, in order
    exitwhy,   \* history: why handle_socket returned
    term,      \* the terminal modes the process has switched on: "raw", "alt"
    netret     \* what run_server / run_client returned: "none", "Ok", "Err"

vars == <<appc, netpc, uipc, messages, input, net_chan, ui_chan, wire, timer,
          conn, fault, sendlog, written, exitwhy, term, netret>>

Running(n) == appc[n] = "run"
\* A receiver that exists only during the session.
NetRxAliveInSession(n) == netpc[n] \in {"select", "drain"}
\* net_rx lives from main to the return of run_server / run_client.
NetRxAlive(n) == netpc[n] \notin {"done", "failed"}
\* ui_rx lives from main to the return of ui_loop.
UiRxAlive(n) == uipc[n] \notin {"exited", "failed"}
\* handle_socket is running.
PipeAlive(n) == netpc[n] \in {"select", "drain"}
\* n's socket (or listener) is gone: handle_socket returned or the process ended.
SockClosed(n) ==
    netpc[n] \in {"done", "failed"} \/ appc[n] \in {"exit0", "exit1", "extclosed"}
\* n accepts connections: a bound TcpListener, or a peer that listens.
Listening(n) == (netpc[n] = "accept" /\ Running(n)) \/ appc[n] = "ext"

\* Sender::send: queues the value unless the receiver was dropped.
ChanSend(q, alive, v) == IF alive THEN Append(q, v) ELSE q

\* Vec::push
Push(v, x) == Append(v, x)

InitWith(progs) ==
    /\ appc = [n \in Node |-> IF n \in progs THEN "start" ELSE "ext"]
    /\ netpc = [n \in Node |-> "idle"]
    /\ uipc = [n \in Node |-> "off"]
    /\ messages = [n \in Node |-> <<>>]
    /\ input = [n \in Node |-> <<>>]
    /\ net_chan = [n \in Node |-> <<>>]
    /\ ui_chan = [n \in Node |-> <<>>]
    /\ wire = [n \in Node |-> <<>>]
    /\ timer = [n \in Node |-> 0]
    /\ conn = "none"
    /\ fault = FALSE
    /\ sendlog = [n \in Node |-> <<>>]
    /\ written = [n \in Node |-> <<>>]
    /\ exitwhy = [n \in Node |-> "none"]
    /\ term = [n \in Node |-> {}]
    /\ netret = [n \in Node |-> "none"]

\* One process of the program, as Listener or as Dialer.
Init == \E p \in Node : InitWith({p})

\* A Listener and a Dialer right after the connection is established: both
\* tasks enter handle_socket, each UI has its status line to show.
InitPair ==
    /\ appc = [n \in Node |-> "run"]
    /\ netpc = [n \in Node |-> "select"]
    /\ uipc = [n \in Node |-> "loop"]
    /\ messages = [n \in Node |-> <<>>]
    /\ input = [n \in Node |-> <<>>]
    /\ net_chan = [n \in Node |-> <<>>]
    /\ ui_chan = [n \in Node |->
                     IF Mode(n) = "server" THEN <<ConnectedPeer>>
                     ELSE <<ConnectedToServer>>]
    /\ wire = [n \in Node |-> <<>>]
    /\ timer = [n \in Node |-> 0]
    /\ conn = "up"
    /\ fault = FALSE
    /\ sendlog = [n \in Node |-> <<>>]
    /\ written = [n \in Node |-> <<>>]
    /\ exitwhy = [n \in Node |-> "none"]
    /\ term = [n \in Node |-> {"raw", "alt"}]
    /\ netret = [n \in Node |-> "none"]

\* run_ui up to the call of ui_loop: enable_raw_mode()?, execute!(.., Enter
\* AlternateScreen, EnableMouseCapture)?, Terminal::new(backend)?.  failAt is
\* the step that fails (0: none); a failing step returns its error at once.
SetupSteps == 0..3

RunUiSetup(failAt) ==
    IF failAt = 1 THEN {}
    ELSE IF failAt = 2 THEN {"raw"}
    ELSE {"raw", "alt"}

\* main: parse the address, create the channels, spawn the task, run_ui up
\* to ui_loop.  A bad address or a failing setup step ends main with Err.
Main(n, addrOk, failAt) ==
    /\ appc[n] = "start"
    /\ IF addrOk
       THEN /\ term' = [term EXCEPT ![n] = RunUiSetup(failAt)]
            /\ IF failAt = 0
               THEN /\ appc' = [appc EXCEPT ![n] = "run"]
                    /\ netpc' = [netpc EXCEPT ![n] =
                                    IF Mode(n) = "server" THEN "bind" ELSE "connect"]
                    /\ uipc' = [uipc EXCEPT ![n] = "loop"]
               ELSE /\ appc' = [appc EXCEPT ![n] = "exit1"]
                    /\ UNCHANGED <<netpc, uipc>>
       ELSE /\ failAt = 0
            /\ appc' = [appc EXCEPT ![n] = "exit1"]
            /\ UNCHANGED <<netpc, uipc, term>>
    /\ UNCHANGED <<netret, messages, input, net_chan, ui_chan, wire, timer, conn,
                   fault, sendlog, written, exitwhy>>

\* run_ui after ui_loop: disable_raw_mode()?, execute!(.., LeaveAlternate
\* Screen, DisableMouseCapture)?, terminal.show_cursor()?, res.  failAt is
\* the step that fails (0: none); the steps after it are not run.
TeardownSteps == 0..3

RunUiTeardown(modes, failAt) ==
    IF failAt = 1 THEN modes
    ELSE IF failAt = 2 THEN modes \ {"raw"}
    ELSE modes \ {"raw", "alt"}

\* ui_loop returned: run_ui tears the terminal down and main returns what
\* run_ui returned; the runtime and its task are dropped.
MainReturn(n, failAt) ==
    /\ Running(n)
    /\ uipc[n] \in {"exited", "failed"}
    /\ term' = [term EXCEPT ![n] = RunUiTeardown(@, failAt)]
    /\ appc' = [appc EXCEPT ![n] =
                   IF uipc[n] = "exited" /\ failAt = 0 THEN "exit0" ELSE "exit1"]
    /\ UNCHANGED <<netret, netpc, uipc, messages, input, net_chan, ui_chan, wire,
                   timer, conn, fault, sendlog, written, exitwhy>>

\* ------------------------------------------------- run_server / run_client
\* TcpListener::bind(addr).await?
RunServerBind(n, ok) ==
    /\ Running(n)
    /\ netpc[n] = "bind"
    /\ netpc' = [netpc EXCEPT ![n] = IF ok THEN "accept" ELSE "failed"]
    /\ netret' = [netret EXCEPT ![n] = IF ok THEN @ ELSE "Err"]
    /\ UNCHANGED <<term, appc, uipc, messages, input, net_chan, ui_chan, wire,
                   timer, conn, fault, sendlog, written, exitwhy>>

\* An accept that starts the session without the status line.
RunServerAcceptNoStatus(n) ==
    /\ Running(n)
    /\ netpc[n] = "accept"
    /\ conn = "pending"
    /\ conn' = "up"
    /\ netpc' = [netpc EXCEPT ![n] = "select"]
    /\ timer' = [timer EXCEPT ![n] = 0]
    /\ UNCHANGED <<term, netret, appc, uipc, messages, input, net_chan, ui_chan,
                   wire, fault, sendlog, written, exitwhy>>

\* listener.accept().await?, the status line, then handle_socket.
RunServerAccept(n) ==
    /\ Running(n)
    /\ netpc[n] = "accept"
    /\ conn = "pending"
    /\ conn' = "up"
    /\ ui_chan' = [ui_chan EXCEPT ![n] = ChanSend(@, UiRxAlive(n), ConnectedPeer)]
    /\ netpc' = [netpc EXCEPT ![n] = "select"]
    /\ timer' = [timer EXCEPT ![n] = 0]
    /\ UNCHANGED <<term, netret, appc, uipc, messages, input, net_chan, wire, fault,
                   sendlog, written, exitwhy>>

\* TcpStream::connect(addr).await?, the status line, then handle_socket.
\* The connect succeeds only while the peer listens.
RunClientConnect(n, ok) ==
    /\ Running(n)
    /\ netpc[n] = "connect"
    /\ ok => (Listening(Peer(n)) /\ conn = "none")
    /\ IF ok
       THEN /\ conn' = IF Running(Peer(n)) THEN "pending" ELSE "up"
            /\ ui_chan' = [ui_chan EXCEPT ![n] =
                              ChanSend(@, UiRxAlive(n), ConnectedToServer)]
            /\ netpc' = [netpc EXCEPT ![n] = "select"]
            /\ timer' = [timer EXCEPT ![n] = 0]
            /\ UNCHANGED netret
       ELSE /\ netpc' = [netpc EXCEPT ![n] = "failed"]
            /\ netret' = [netret EXCEPT ![n] = "Err"]
            /\ UNCHANGED <<conn, ui_chan, timer>>
    /\ UNCHANGED <<term, appc, uipc, messages, input, net_chan, wire, fault,
                   sendlog, written, exitwhy>>

\* ---------------------------------------------------------- handle_socket
\* The read branch of select!, Ok(Some(line)): the line goes to the UI as it
\* is.  The loop's next iteration creates a new sleep.
HandleSocketReadLine(n) ==
    /\ Running(n)
    /\ netpc[n] = "select"
    /\ HasLine(wire[n])
    /\ ui_chan' = [ui_chan EXCEPT ![n] =
                      ChanSend(@, UiRxAlive(n), FirstLine(wire[n]))]
    /\ wire' = [wire EXCEPT ![n] = AfterFirstLine(@)]
    /\ timer' = [timer EXCEPT ![n] = 0]
    /\ UNCHANGED <<term, netret, appc, netpc, uipc, messages, input, net_chan, conn, fault,
                   sendlog, written, exitwhy>>

\* An Ok(None) arm that pushes the status line and does not break.
HandleSocketReadEofNoBreak(n) ==
    /\ Running(n)
    /\ netpc[n] = "select"
    /\ ~HasLine(wire[n])
    /\ SockClosed(Peer(n))
    /\ ~fault
    /\ ui_chan' = [ui_chan EXCEPT ![n] = ChanSend(@, UiRxAlive(n), ClosedByPeer)]
    /\ timer' = [timer EXCEPT ![n] = 0]
    /\ exitwhy' = [exitwhy EXCEPT ![n] = "eof"]
    /\ UNCHANGED <<term, netret, appc, netpc, uipc, messages, input, net_chan, wire, conn,
                   fault, sendlog, written>>

\* The read branch, Ok(None): the peer closed and every line was read.
HandleSocketReadEof(n) ==
    /\ Running(n)
    /\ netpc[n] = "select"
    /\ ~HasLine(wire[n])
    /\ SockClosed(Peer(n))
    /\ ~fault
    /\ ui_chan' = [ui_chan EXCEPT ![n] = ChanSend(@, UiRxAlive(n), ClosedByPeer)]
    /\ netpc' = [netpc EXCEPT ![n] = "done"]
    /\ exitwhy' = [exitwhy EXCEPT ![n] = "eof"]
    /\ netret' = [netret EXCEPT ![n] = "Ok"]
    /\ UNCHANGED <<term, appc, uipc, messages, input, net_chan, wire, timer, conn,
                   fault, sendlog, written>>

\* A read error after which the task establishes the connection anew.
HandleSocketReadErrReconnect(n) ==
    /\ Running(n)
    /\ netpc[n] = "select"
    /\ fault
    /\ ui_chan' = [ui_chan EXCEPT ![n] = ChanSend(@, UiRxAlive(n), ReadError)]
    /\ netpc' = [netpc EXCEPT ![n] =
                    IF Mode(n) = "server" THEN "accept" ELSE "connect"]
    /\ conn' = "none"
    /\ fault' = FALSE
    /\ UNCHANGED <<term, netret, appc, uipc, messages, input, net_chan, wire,
                   timer, sendlog, written, exitwhy>>

\* The read branch, Err(e).
HandleSocketReadErr(n) ==
    /\ Running(n)
    /\ netpc[n] = "select"
    /\ fault
    /\ ui_chan' = [ui_chan EXCEPT ![n] = ChanSend(@, UiRxAlive(n), ReadError)]
    /\ netpc' = [netpc EXCEPT ![n] = "done"]
    /\ exitwhy' = [exitwhy EXCEPT ![n] = "readerr"]
    /\ netret' = [netret EXCEPT ![n] = "Ok"]
    /\ UNCHANGED <<term, appc, uipc, messages, input, net_chan, wire, timer, conn,
                   fault, sendlog, written>>

\* The sleep branch of select! is taken: the drain loop starts.
HandleSocketTick(n) ==
    /\ Running(n)
    /\ netpc[n] = "select"
    /\ timer[n] = TickLen
    /\ netpc' = [netpc EXCEPT ![n] = "drain"]
    /\ UNCHANGED <<term, netret, appc, uipc, messages, input, net_chan, ui_chan, wire,
                   timer, conn, fault, sendlog, written, exitwhy>>

\* A round whose failed write pushes the status line and goes on draining.
HandleSocketDrainWriteContinue(n, ok) ==
    /\ Running(n)
    /\ netpc[n] = "drain"
    /\ net_chan[n] # <<>>
    /\ LET out == WireLine(Name(n), Head(net_chan[n])) IN
       IF ok
       THEN /\ ~fault
            /\ Len(wire[Peer(n)]) + Len(out) <= WireCap
            /\ wire' = [wire EXCEPT ![Peer(n)] = @ \o out]
            /\ written' = [written EXCEPT ![n] = Append(@, out)]
            /\ UNCHANGED ui_chan
       ELSE /\ fault \/ SockClosed(Peer(n))
            /\ ui_chan' = [ui_chan EXCEPT ![n] =
                              ChanSend(@, UiRxAlive(n), WriteError)]
            /\ UNCHANGED <<wire, written>>
    /\ net_chan' = [net_chan EXCEPT ![n] = Tail(@)]
    /\ UNCHANGED <<term, netret, netpc, exitwhy, appc, uipc, messages, input,
                   timer, conn, fault, sendlog>>

\* One round of `while let Ok(cmd) = net_rx.try_recv()`: format and
\* write_all.  write_all completes once the whole line fits the connection
\* (it stays suspended until then) or fails.
HandleSocketDrainWrite(n, ok) ==
    /\ Running(n)
    /\ netpc[n] = "drain"
    /\ net_chan[n] # <<>>
    /\ LET out == WireLine(Name(n), Head(net_chan[n])) IN
       IF ok
       THEN /\ ~fault
            /\ Len(wire[Peer(n)]) + Len(out) <= WireCap
            /\ wire' = [wire EXCEPT ![Peer(n)] = @ \o out]
            /\ written' = [written EXCEPT ![n] = Append(@, out)]
            /\ UNCHANGED <<ui_chan, netpc, exitwhy, netret>>
       ELSE /\ fault \/ SockClosed(Peer(n))
            /\ ui_chan' = [ui_chan EXCEPT ![n] =
                              ChanSend(@, UiRxAlive(n), WriteError)]
            /\ netpc' = [netpc EXCEPT ![n] = "done"]
            /\ exitwhy' = [exitwhy EXCEPT ![n] = "writeerr"]
            /\ netret' = [netret EXCEPT ![n] = "Ok"]
            /\ UNCHANGED <<wire, written>>
    /\ net_chan' = [net_chan EXCEPT ![n] = Tail(@)]
    /\ UNCHANGED <<term, appc, uipc, messages, input, timer, conn, fault, sendlog>>

\* A drain loop that may end with commands left in the channel.
HandleSocketDrainDoneEarly(n) ==
    /\ Running(n)
    /\ netpc[n] = "drain"
    /\ netpc' = [netpc EXCEPT ![n] = "select"]
    /\ timer' = [timer EXCEPT ![n] = 0]
    /\ UNCHANGED <<term, netret, appc, uipc, messages, input, net_chan, ui_chan, wire, conn,
                   fault, sendlog, written, exitwhy>>

\* try_recv finds the channel empty: the while loop ends, the outer loop
\* starts the next select! with a new sleep.
HandleSocketDrainDone(n) ==
    /\ Running(n)
    /\ netpc[n] = "drain"
    /\ net_chan[n] = <<>>
    /\ netpc' = [netpc EXCEPT ![n] = "select"]
    /\ timer' = [timer EXCEPT ![n] = 0]
    /\ UNCHANGED <<term, netret, appc, uipc, messages, input, net_chan, ui_chan, wire, conn,
                   fault, sendlog, written, exitwhy>>

\* Time passes for the sleep of n's select!.
TimePass(n) ==
    /\ Running(n)
    /\ netpc[n] = "select"
    /\ timer[n] < TickLen
    /\ timer' = [timer EXCEPT ![n] = @ + 1]
    /\ UNCHANGED <<term, netret, appc, netpc, uipc, messages, input, net_chan, ui_chan,
                   wire, conn, fault, sendlog, written, exitwhy>>

\* The network resets the connection.
NetFault ==
    /\ conn # "none"
    /\ ~fault
    /\ \E n \in Node : PipeAlive(n) /\ Running(n)
    /\ fault' = TRUE
    /\ UNCHANGED <<term, netret, appc, netpc, uipc, messages, input, net_chan, ui_chan,
                   wire, timer, conn, sendlog, written, exitwhy>>

\* ---------------------------------------------------------------- ui_loop
\* while let Ok(line) = ui_rx.try_recv() { messages.push(line) }
RECURSIVE RecvAll(_, _)
RecvAll(msgs, q) ==
    IF q = <<>> THEN msgs ELSE RecvAll(Push(msgs, Head(q)), Tail(q))

\* What event::poll / event::read deliver within one cycle: nothing before
\* the timeout, or a key event of some kind and code.
Events ==
    {[type |-> "none", kind |-> "-", code |-> "-", ch |-> "-"]}
    \cup [type : {"key"}, kind : {"Press"}, code : {"Char"}, ch : Chars]
    \cup [type : {"key"}, kind : {"Press"},
          code : {"Backspace", "Enter", "Esc", "Tab"}, ch : {"-"}]
    \cup [type : {"key"}, kind : {"Release"}, code : {"Enter", "Esc"}, ch : {"-"}]

\* A test that takes a key event of any kind.
IsKey(ev, code) == ev.type = "key" /\ ev.code = code
\* key_event.kind == KeyEventKind::Press, then the match on key_event.code
IsPress(ev, code) == ev.type = "key" /\ ev.kind = "Press" /\ ev.code = code

\* The test without the trim.
SubmitsUntrimmed(buf) == buf # <<>>
\* `if !input.trim().is_empty()`
Submits(buf) == Trim(buf) # <<>>

\* One cycle of the loop: drain ui_rx, draw, poll, and the match on the key,
\* up to the push of the echo (Enter) or the break (Esc).
UiLoopCycle(n, ev) ==
    /\ Running(n)
    /\ uipc[n] = "loop"
    /\ ui_chan' = [ui_chan EXCEPT ![n] = <<>>]
    /\ input' = [input EXCEPT ![n] =
                    IF IsPress(ev, "Char") THEN Append(@, ev.ch)
                    ELSE IF IsPress(ev, "Backspace") THEN Pop(@)
                    ELSE @]
    /\ messages' = [messages EXCEPT ![n] =
                       LET drained == RecvAll(@, ui_chan[n]) IN
                       IF IsPress(ev, "Enter") /\ Submits(input[n])
                       THEN Push(drained, EchoLine(Name(n), input[n]))
                       ELSE IF IsPress(ev, "Esc") THEN Push(drained, Exiting)
                       ELSE drained]
    /\ uipc' = [uipc EXCEPT ![n] =
                   IF IsPress(ev, "Enter") /\ Submits(input[n]) THEN "send"
                   ELSE IF IsPress(ev, "Esc") THEN "exited"
                   ELSE "loop"]
    /\ UNCHANGED <<term, netret, appc, netpc, net_chan, wire, timer, conn, fault, sendlog,
                   written, exitwhy>>

\* terminal.draw(..)?, event::poll(..)? or event::read()? fails: ui_loop
\* returns the error, after the drain of this cycle.
UiLoopFail(n) ==
    /\ Running(n)
    /\ uipc[n] = "loop"
    /\ ui_chan' = [ui_chan EXCEPT ![n] = <<>>]
    /\ messages' = [messages EXCEPT ![n] = RecvAll(@, ui_chan[n])]
    /\ uipc' = [uipc EXCEPT ![n] = "failed"]
    /\ UNCHANGED <<term, netret, appc, netpc, input, net_chan, wire, timer, conn,
                   fault, sendlog, written, exitwhy>>

\* What the user does: the model's bound on the typing.
RECURSIVE TotalLen(_)
TotalLen(texts) ==
    IF texts = <<>> THEN 0 ELSE Len(Head(texts)) + TotalLen(Tail(texts))

Typed(n) == Len(input[n]) + TotalLen(sendlog[n])

UserMay(n, ev) == IsPress(ev, "Char") => Typed(n) < MaxTyped

\* A send whose failure ends the loop (`?` in place of `.ok()`).
UiLoopSendOrFail(n) ==
    /\ Running(n)
    /\ uipc[n] = "send"
    /\ net_chan' = [net_chan EXCEPT ![n] = ChanSend(@, NetRxAlive(n), input[n])]
    /\ sendlog' = [sendlog EXCEPT ![n] = Append(@, input[n])]
    /\ input' = [input EXCEPT ![n] = IF NetRxAlive(n) THEN <<>> ELSE @]
    /\ uipc' = [uipc EXCEPT ![n] = IF NetRxAlive(n) THEN "loop" ELSE "exited"]
    /\ UNCHANGED <<term, netret, appc, netpc, messages, ui_chan, wire, timer, conn, fault,
                   written, exitwhy>>

\* net_tx.send(NetworkCommand::Send(to_send)).ok(); input.clear();
UiLoopSend(n) ==
    /\ Running(n)
    /\ uipc[n] = "send"
    /\ net_chan' = [net_chan EXCEPT ![n] = ChanSend(@, NetRxAlive(n), input[n])]
    /\ sendlog' = [sendlog EXCEPT ![n] = Append(@, input[n])]
    /\ input' = [input EXCEPT ![n] = <<>>]
    /\ uipc' = [uipc EXCEPT ![n] = "loop"]
    /\ UNCHANGED <<term, netret, appc, netpc, messages, ui_chan, wire, timer, conn, fault,
                   written, exitwhy>>

\* ------------------------------------------------ a peer of another make
\* The lines such a peer sends: its k-th line.
PeerLineAt(k) == IF k % 2 = 1 THEN <<"x">> ELSE <<" ", "y">>

\* The peer connects to the Listener.
PeerConnect(n) ==
    /\ appc[n] = "ext"
    /\ conn = "none"
    /\ Listening(Peer(n)) /\ Running(Peer(n))
    /\ conn' = "pending"
    /\ UNCHANGED <<term, netret, appc, netpc, uipc, messages, input, net_chan, ui_chan,
                   wire, timer, fault, sendlog, written, exitwhy>>

\* The peer sends one line.
PeerWrite(n) ==
    /\ appc[n] = "ext"
    /\ conn # "none"
    /\ ~fault
    /\ Len(written[n]) < MaxPeerLines
    /\ LET out == PeerLineAt(Len(written[n]) + 1) \o <<"\n">> IN
       /\ Len(wire[Peer(n)]) + Len(out) <= WireCap
       /\ wire' = [wire EXCEPT ![Peer(n)] = @ \o out]
       /\ written' = [written EXCEPT ![n] = Append(@, out)]
    /\ UNCHANGED <<term, netret, appc, netpc, uipc, messages, input, net_chan, ui_chan,
                   timer, conn, fault, sendlog, exitwhy>>

\* The peer reads what was sent to it.
PeerRead(n) ==
    /\ appc[n] = "ext"
    /\ wire[n] # <<>>
    /\ wire' = [wire EXCEPT ![n] = <<>>]
    /\ UNCHANGED <<term, netret, appc, netpc, uipc, messages, input, net_chan, ui_chan,
                   timer, conn, fault, sendlog, written, exitwhy>>

\* The peer closes the connection.
PeerClose(n) ==
    /\ appc[n] = "ext"
    /\ conn # "none"
    /\ appc' = [appc EXCEPT ![n] = "extclosed"]
    /\ UNCHANGED <<term, netret, netpc, uipc, messages, input, net_chan, ui_chan, wire,
                   timer, conn, fault, sendlog, written, exitwhy>>

\* ------------------------------------------------------------------- Next
Next ==
    \/ \E n \in Node, ok \in BOOLEAN, failAt \in SetupSteps : Main(n, ok, failAt)
    \/ \E n \in Node, failAt \in TeardownSteps : MainReturn(n, failAt)
    \/ \E n \in Node, ok \in BOOLEAN : RunServerBind(n, ok)
    \/ \E n \in Node : RunServerAccept(n)
    \/ \E n \in Node, ok \in BOOLEAN : RunClientConnect(n, ok)
    \/ \E n \in Node : HandleSocketReadLine(n)
    \/ \E n \in Node : HandleSocketReadEof(n)
    \/ \E n \in Node : HandleSocketReadErr(n)
    \/ \E n \in Node : HandleSocketTick(n)
    \/ \E n \in Node, ok \in BOOLEAN : HandleSocketDrainWrite(n, ok)
    \/ \E n \in Node : HandleSocketDrainDone(n)
    \/ \E n \in Node : TimePass(n)
    \/ NetFault
    \/ \E n \in Node, ev \in Events : UserMay(n, ev) /\ UiLoopCycle(n, ev)
    \/ \E n \in Node : UiLoopSend(n)
    \/ \E n \in Node : UiLoopFail(n)
    \/ \E n \in Node : PeerConnect(n)
    \/ \E n \in Node : PeerWrite(n)
    \/ \E n \in Node : PeerRead(n)
    \/ \E n \in Node : PeerClose(n)

Spec == Init /\ [][Next]_vars

\* ----------------------------------------------------------------- PairSpec
\* A connected Listener and Dialer, both of this program, with no failure of
\* the network: the users type "a" and submit.
PairEvents == {ev \in Events : ev.type = "none" \/ IsPress(ev, "Enter")
                                 \/ (IsPress(ev, "Char") /\ ev.ch = "a")}

NextPair ==
    \/ \E n \in Node : HandleSocketReadLine(n)
    \/ \E n \in Node : HandleSocketTick(n)
    \/ \E n \in Node : HandleSocketDrainWrite(n, TRUE)
    \/ \E n \in Node : HandleSocketDrainDone(n)
    \/ \E n \in Node : TimePass(n)
    \/ \E n \in Node, ev \in PairEvents : UserMay(n, ev) /\ UiLoopCycle(n, ev)
    \/ \E n \in Node : UiLoopSend(n)

\* Both schedulers run what is ready: the tokio runtime resumes a task whose
\* await completed, select! picks at random among the branches that are
\* ready (so a branch that is ready again and again is taken), the timers
\* advance, and the UI thread runs its loop (poll returns at the timeout).
NoEvent == [type |-> "none", kind |-> "-", code |-> "-", ch |-> "-"]

PairFairness ==
    \A n \in Node :
        /\ SF_vars(HandleSocketReadLine(n))
        /\ SF_vars(HandleSocketTick(n))
        /\ WF_vars(HandleSocketDrainWrite(n, TRUE))
        /\ WF_vars(HandleSocketDrainDone(n))
        /\ WF_vars(TimePass(n))
        /\ WF_vars(UiLoopCycle(n, NoEvent))
        /\ WF_vars(UiLoopSend(n))

PairSpec == InitPair /\ [][NextPair]_vars /\ PairFairness

\* ------------------------------------------------------------------ claims
\* C1: every Outbound Command enqueued while the Session Pipe is alive is
\* eventually written to the socket, unless the pipe or the process ends
\* first: the pipe never stays alive forever with an enqueued command that
\* is never written.  (The k-th text handed to net_tx.send becomes the k-th
\* write.)
C1_EnqueuedEventuallyWritten ==
    \A n \in Node : \A k \in 1..MaxTyped :
        (Len(sendlog[n]) >= k /\ PipeAlive(n))
            ~> (Len(written[n]) >= k \/ ~PipeAlive(n) \/ ~Running(n))

\* ---- what the claims read
\* n is a process of this program.
IsProgram(n) == appc[n] \notin {"ext", "extclosed"}

HasPrefix(s, p) == Len(s) >= Len(p) /\ SubSeq(s, 1, Len(p)) = p

\* The lines of a history (or of a channel) that n echoed itself.
OwnEchoes(n, lines) ==
    LET Own(l) == HasPrefix(l, Name(n) \o <<":", " ">>) IN SelectSeq(lines, Own)

\* The lines of a history (or of a channel) that came from the peer.
PeerAuthored(n, lines) ==
    LET FromPeer(l) == l \notin StatusLines
                       /\ ~HasPrefix(l, Name(n) \o <<":", " ">>)
    IN  SelectSeq(lines, FromPeer)

\* The number of complete lines in a byte string.
NumLines(w) == Cardinality({i \in 1..Len(w) : w[i] = "\n"})

\* The lines n put on the connection, each without its newline.
LinesSentBy(n) ==
    [i \in 1..Len(written[n]) |-> SubSeq(written[n][i], 1, Len(written[n][i]) - 1)]

Count(x, lines) == Cardinality({i \in 1..Len(lines) : lines[i] = x})

IsBlank(s) == \A i \in 1..Len(s) : s[i] = " "

EnterPress == [type |-> "key", kind |-> "Press", code |-> "Enter", ch |-> "-"]
EscPress == [type |-> "key", kind |-> "Press", code |-> "Esc", ch |-> "-"]

\* C2: the lines that arrived on the inbound half, in order and unmodified,
\* are what the Message History holds of the peer: the peer's lines in the
\* history, followed by those still in the inbound display queue, are the
\* lines the pipe has read so far (all the lines sent but those still on the
\* connection).  With the queue drained, the history holds exactly these.
C2_InboundLinesInHistory ==
    \A n \in Node :
        (Running(n) /\ UiRxAlive(n)) =>
            PeerAuthored(n, messages[n]) \o PeerAuthored(n, ui_chan[n])
                = SubSeq(LinesSentBy(Peer(n)), 1,
                         Len(written[Peer(n)]) - NumLines(wire[n]))

\* Both lines of the peer are in the history, the queue is drained, and the
\* tick branch has run and written in the meantime.
C2_Witness ==
    \E n \in Node :
        /\ Running(n) /\ ui_chan[n] = <<>>
        /\ Len(PeerAuthored(n, messages[n])) = 2
        /\ written[n] # <<>>

\* C3: between a connected Listener and Dialer with no socket error, the
\* k-th text T submitted on the side named N eventually is the k-th line of
\* the peer in the other side's Message History, as "N: T" (so the texts
\* of one sender appear in the order of their submission), in both directions.
C3_SubmittedEventuallyShown ==
    \A n \in Node : \A k \in 1..MaxTyped :
        (Len(sendlog[n]) >= k)
            ~> (/\ Len(sendlog[n]) >= k
                /\ LET h == PeerAuthored(Peer(n), messages[Peer(n)]) IN
                   /\ Len(h) >= k
                   /\ h[k] = Name(n) \o <<":", " ">> \o sendlog[n][k])

\* C4, as stated: for every Enter press with a buffer whose trimmed content
\* is not empty, one command with the untrimmed text is enqueued and then
\* one echo line is appended, the command first: the history never holds an
\* echo whose command has not been handed to the outbound queue.
C4_CommandThenEcho ==
    \A n \in Node : Len(OwnEchoes(n, messages[n])) <= Len(sendlog[n])

\* The echoes of the history are those of the texts handed to the outbound
\* queue, in order, plus the one of the submission in progress.
C4_EchoState ==
    \A n \in Node :
        LET e == OwnEchoes(n, messages[n]) IN
        /\ Len(e) = Len(sendlog[n]) + (IF uipc[n] = "send" THEN 1 ELSE 0)
        /\ \A i \in 1..Len(sendlog[n]) :
               e[i] = Name(n) \o <<":", " ">> \o sendlog[n][i]
        /\ uipc[n] = "send" =>
               /\ ~IsBlank(input[n])
               /\ messages[n][Len(messages[n])] = Name(n) \o <<":", " ">> \o input[n]

\* The Enter press appends the echo and nothing else.
C4_EnterStep(n) ==
    (UiLoopCycle(n, EnterPress) /\ ~IsBlank(input[n])) =>
        /\ uipc'[n] = "send"
        /\ messages'[n] = messages[n] \o ui_chan[n]
                              \o <<Name(n) \o <<":", " ">> \o input[n]>>
        /\ UNCHANGED <<input, net_chan, sendlog>>

\* The hand-over follows the echo and clears the buffer.
C4_SendStep(n) ==
    (uipc[n] = "send" /\ uipc'[n] # "send") =>
        /\ uipc'[n] = "loop"
        /\ sendlog'[n] = Append(sendlog[n], input[n])
        /\ net_chan'[n] = IF NetRxAlive(n) THEN Append(net_chan[n], input[n])
                          ELSE net_chan[n]
        /\ input'[n] = <<>>
        /\ messages'[n] = messages[n]

\* C4, amended: for every Enter press with a buffer whose trimmed content is
\* not empty, exactly one echo line "<name>: <text>" with the untrimmed text
\* is appended to the history first, then exactly one command carrying the
\* same untrimmed text is handed to the outbound queue (it is queued while
\* the background task still holds the receiver), and the buffer is then
\* empty.
C4_EchoThenCommand ==
    /\ []C4_EchoState
    /\ [][\A n \in Node : C4_EnterStep(n) /\ C4_SendStep(n)]_vars

\* An untrimmed text was submitted: echoed, handed over, the buffer cleared.
C4_Witness ==
    \E n \in Node :
        /\ uipc[n] = "loop" /\ input[n] = <<>>
        /\ sendlog[n] = << <<" ", "a">> >>
        /\ net_chan[n] = << <<" ", "a">> >>
        /\ messages[n] # <<>>
        /\ messages[n][Len(messages[n])] = Name(n) \o <<":", " ", " ", "a">>

\* C5: an Enter press with a buffer that is empty or all whitespace enqueues
\* no command, appends no line to the history (which only takes the lines
\* drained from the inbound queue in that cycle) and leaves the buffer as it
\* is.
C5_BlankEnterIsNoOp ==
    [][\A n \in Node :
          (UiLoopCycle(n, EnterPress) /\ IsBlank(input[n])) =>
              /\ uipc'[n] = "loop"
              /\ input'[n] = input[n]
              /\ messages'[n] = messages[n] \o ui_chan[n]
              /\ net_chan'[n] = net_chan[n]
              /\ sendlog'[n] = sendlog[n]]_vars

\* The loop with a buffer of whitespace: Enter is pressed here, and the
\* state after the press is this state again.
C5_Witness ==
    \E n \in Node :
        /\ Running(n) /\ uipc[n] = "loop"
        /\ input[n] = <<" ">>
        /\ ui_chan[n] = <<>>
        /\ PipeAlive(n)

\* C6: the bytes the Session Pipe with display name N writes for a command
\* Send(T) are exactly "N: T" and one newline, nothing added, trimmed or
\* left out: the i-th write is that of the i-th text handed to the queue.
C6_WrittenBytes ==
    \A n \in Node :
        IsProgram(n) =>
            /\ Len(written[n]) <= Len(sendlog[n])
            /\ \A i \in 1..Len(written[n]) :
                   written[n][i] = Name(n) \o <<":", " ">> \o sendlog[n][i] \o <<"\n">>

\* A text with a leading space was written to the socket.
C6_Witness ==
    \E n \in Node :
        /\ IsProgram(n)
        /\ written[n] = << Name(n) \o <<":", " ", " ", "a", "\n">> >>

\* A round of the drain takes the head of the queue and writes it.
C7_DrainStep(n) ==
    (netpc[n] = "drain" /\ netpc'[n] = "drain" /\ written'[n] # written[n]) =>
        /\ net_chan[n] # <<>>
        /\ written'[n] = Append(written[n],
                                Name(n) \o <<":", " ">> \o Head(net_chan[n]) \o <<"\n">>)
        /\ net_chan'[n] = Tail(net_chan[n])

\* At the return to the race the queue is empty and every text handed to it
\* has been written, in the order of the enqueueing.
C7_BackToRace(n) ==
    (netpc[n] = "drain" /\ netpc'[n] = "select") =>
        /\ net_chan[n] = <<>>
        /\ net_chan'[n] = <<>>
        /\ Len(written[n]) = Len(sendlog[n])
        /\ \A i \in 1..Len(sendlog[n]) :
               written[n][i] = Name(n) \o <<":", " ">> \o sendlog[n][i] \o <<"\n">>

\* With a command queued the drain goes on, or the pipe ends on a write error.
C7_NoRaceWhileQueued(n) ==
    (netpc[n] = "drain" /\ net_chan[n] # <<>>) => netpc'[n] \in {"drain", "done"}

C8_EofStep(n) ==
    (netpc[n] = "select" /\ netpc'[n] = "done" /\ exitwhy'[n] = "eof") =>
        /\ ~HasLine(wire[n])
        /\ ui_chan'[n] = IF UiRxAlive(n) THEN Append(ui_chan[n], ClosedByPeer)
                          ELSE ui_chan[n]
        /\ wire' = wire /\ written' = written

\* The ended pipe takes nothing from the connection, writes nothing and
\* pushes nothing.
C8_AfterExit(n) ==
    netpc[n] = "done" =>
        /\ netpc'[n] = "done" /\ exitwhy'[n] = exitwhy[n]
        /\ written'[n] = written[n]
        /\ Len(wire'[n]) >= Len(wire[n])
        /\ ui_chan'[n] \in {ui_chan[n], <<>>}

\* The status line exists once, and only after an end-of-stream.
C8_OneClosedLine ==
    \A n \in Node :
        LET c == Count(ClosedByPeer, messages[n] \o ui_chan[n]) IN
        /\ c <= 1
        /\ exitwhy[n] # "eof" => c = 0
        /\ (exitwhy[n] = "eof" /\ UiRxAlive(n)) => c = 1

\* C8: at end-of-stream the Session Pipe pushes exactly one "closed by peer"
\* status line into the inbound display queue and the loop exits: after it
\* the pipe reads nothing more from the connection, writes nothing more and
\* pushes nothing more.
C8_EofEndsPipe ==
    /\ []C8_OneClosedLine
    /\ [][\A n \in Node : C8_EofStep(n) /\ C8_AfterExit(n)]_vars

\* The pipe ended on end-of-stream and the status line is in the history.
C8_Witness ==
    \E n \in Node :
        /\ netpc[n] = "done" /\ exitwhy[n] = "eof"
        /\ Count(ClosedByPeer, messages[n]) = 1
        /\ written[n] # <<>>

\* C9: when connection establishment fails (the Dialer's connect, the
\* Listener's bind), the process exits with a non-zero status and the
\* Interactive Loop is never entered.
C9_EstablishFailureExits ==
    \A n \in Node :
        netpc[n] = "failed" => (uipc[n] = "off" /\ appc[n] # "exit0")

\* The status line of each way the pipe ends.
StatusOf(why) ==
    IF why = "eof" THEN ClosedByPeer
    ELSE IF why = "readerr" THEN ReadError
    ELSE WriteError

\* The status line of the error is in the display queue or in the history.
C10_StatusSurfaced ==
    \A n \in Node :
        (netpc[n] = "done" /\ UiRxAlive(n)) =>
            /\ exitwhy[n] \in {"eof", "readerr", "writeerr"}
            /\ Count(StatusOf(exitwhy[n]), messages[n] \o ui_chan[n]) = 1

\* The step that ends the pipe leaves the loop and the process as they are.
C10_PipeEnds(n) ==
    (netpc[n] # "done" /\ netpc'[n] = "done") =>
        /\ uipc'[n] = uipc[n] /\ appc'[n] = appc[n]
        /\ messages'[n] = messages[n] /\ input'[n] = input[n]

\* An Enter after the end of the pipe is accepted like any other.
C10_EnterAfter(n) ==
    /\ (netpc[n] = "done" /\ UiLoopCycle(n, EnterPress) /\ ~IsBlank(input[n])) =>
           /\ uipc'[n] = "send"
           /\ messages'[n] = messages[n] \o ui_chan[n]
                                 \o <<Name(n) \o <<":", " ">> \o input[n]>>
    /\ (netpc[n] = "done" /\ uipc[n] = "send" /\ uipc'[n] # "send") =>
           /\ uipc'[n] = "loop" /\ appc'[n] = "run"
           /\ input'[n] = <<>>
           /\ messages'[n] = messages[n] /\ ui_chan'[n] = ui_chan[n]

\* The ended pipe writes nothing: the peer's inbound bytes only shrink.
C10_NeverWritten(n) ==
    netpc[n] = "done" =>
        /\ netpc'[n] = "done"
        /\ written'[n] = written[n]
        /\ wire'[Peer(n)] = wire[Peer(n)] \/ Len(wire'[Peer(n)]) < Len(wire[Peer(n)])

\* C10: a SessionError (read error, write error, close by the peer) ends the
\* Session Pipe only.  Its status line is in the inbound display queue or in
\* the Message History; the step that ends the pipe leaves the Interactive
\* Loop and the process running; an Enter submitted after it is accepted
\* like any other (the echo, the buffer cleared, the loop goes on, no line
\* about an error); and nothing is written to the socket any more.
C10_SessionErrorEndsOnlyPipe ==
    /\ []C10_StatusSurfaced
    /\ [][\A n \in Node :
             C10_PipeEnds(n) /\ C10_EnterAfter(n) /\ C10_NeverWritten(n)]_vars

\* After the close by the peer is shown, a text was submitted: echoed after
\* the status line, the buffer cleared, the loop running, nothing written.
C10_Witness ==
    \E n \in Node :
        /\ Running(n) /\ uipc[n] = "loop" /\ input[n] = <<>>
        /\ netpc[n] = "done" /\ exitwhy[n] = "eof"
        /\ Len(sendlog[n]) = 1 /\ written[n] = <<>>
        /\ Len(messages[n]) >= 2
        /\ messages[n][Len(messages[n]) - 1] = ClosedByPeer
        /\ messages[n][Len(messages[n])] = Name(n) \o <<":", " ">> \o sendlog[n][1]

\* C11: the terminal teardown runs on every exit path of run_ui once the
\* terminal mode was entered (cancel, a failure inside the loop, a failure of
\* a setup or teardown step after enable_raw_mode): a process that has ended
\* has left neither raw mode nor the alternate screen switched on.
C11_TeardownOnEveryExit ==
    \A n \in Node : appc[n] \in {"exit0", "exit1"} => term[n] = {}

\* The progress of the background task: establishment, session, end.
C12_Rank(pc) ==
    IF pc = "idle" THEN 0
    ELSE IF pc = "bind" THEN 1
    ELSE IF pc \in {"accept", "connect"} THEN 2
    ELSE IF pc \in {"select", "drain"} THEN 3
    ELSE 4

\* C12: at most one live connection per process execution.  The task never
\* goes back: the Listener's accept and the Dialer's connect are left once
\* (to the session or to the failure) and never entered again, an ended or
\* failed task stays so, a session starts only from the accept of the one
\* pending connection or from the one connect, and an established
\* connection is never replaced by another.
C12_OneConnection ==
    [][\A n \in Node :
          /\ C12_Rank(netpc'[n]) >= C12_Rank(netpc[n])
          /\ netpc[n] \in {"done", "failed"} => netpc'[n] = netpc[n]
          /\ (C12_Rank(netpc[n]) < 3 /\ C12_Rank(netpc'[n]) = 3) =>
                 /\ netpc[n] = IF Mode(n) = "server" THEN "accept" ELSE "connect"
                 /\ conn = IF Mode(n) = "server" THEN "pending" ELSE "none"
                 /\ conn' # "none"
          /\ conn # "none" => conn' \in {conn, "up"}]_vars

\* The session of a running process has ended on an established connection.
C12_Witness ==
    \E n \in Node :
        /\ Running(n) /\ uipc[n] = "loop"
        /\ netpc[n] = "done" /\ conn = "up"
        /\ Len(PeerAuthored(n, messages[n])) >= 1

BackspacePress == [type |-> "key", kind |-> "Press", code |-> "Backspace", ch |-> "-"]

\* C13: a Backspace press on an empty Input Buffer is a no-op (the buffer
\* stays empty, the outbound queue is unchanged, the history only takes the
\* lines drained in that cycle, the loop goes on without an error); on a
\* buffer that is not empty it removes exactly the last character.
C13_Backspace ==
    [][\A n \in Node :
          UiLoopCycle(n, BackspacePress) =>
              /\ uipc'[n] = "loop" /\ appc'[n] = "run"
              /\ messages'[n] = messages[n] \o ui_chan[n]
              /\ net_chan'[n] = net_chan[n]
              /\ sendlog'[n] = sendlog[n]
              /\ IF input[n] = <<>>
                 THEN input'[n] = <<>>
                 ELSE /\ Len(input'[n]) = Len(input[n]) - 1
                      /\ \A i \in 1..Len(input'[n]) : input'[n][i] = input[n][i]]_vars

\* The loop with a buffer of two different characters and a line to drain:
\* Backspace is pressed here, and on the empty buffer of the start.
C13_Witness ==
    \E n \in Node :
        /\ Running(n) /\ uipc[n] = "loop"
        /\ input[n] = <<" ", "a">>
        /\ ui_chan[n] # <<>>

\* The pipe of n is suspended in write_all: the line of the command it took
\* does not fit the connection, and while it waits it reads nothing.
C14_Suspended(n) ==
    /\ netpc[n] = "drain"
    /\ net_chan[n] # <<>>
    /\ Len(wire[Peer(n)]) + Len(Name(n) \o <<":", " ">> \o Head(net_chan[n]) \o <<"\n">>)
           > WireCap

\* C14: two Session Pipes connected to each other never block each other:
\* in no reachable state are both suspended in a write that only a read of
\* the other, itself suspended, could let complete.
C14_NeverBlockEachOther ==
    \A n \in Node : C14_Suspended(n) => ~C14_Suspended(Peer(n))

\* C15: the time from the enqueueing of a command to its drain is bounded by
\* the tick interval whatever the inbound traffic: while a command waits in
\* the queue of a pipe in its read/tick race, the time already elapsed
\* towards the tick is never lost (an iteration of the read branch does not
\* postpone the tick).
C15_TickNotPostponed ==
    [][\A n \in Node :
          (netpc[n] = "select" /\ netpc'[n] = "select" /\ net_chan[n] # <<>>)
              => timer'[n] >= timer[n]]_vars

\* The step of the failed write pushes the status line and ends the pipe;
\* nothing is written by it.
C16_WriteErrStep(n) ==
    (netpc[n] # "done" /\ netpc'[n] = "done" /\ exitwhy'[n] = "writeerr") =>
        /\ netpc[n] = "drain" /\ net_chan[n] # <<>>
        /\ ui_chan'[n] = IF UiRxAlive(n) THEN Append(ui_chan[n], WriteError)
                          ELSE ui_chan[n]
        /\ written' = written /\ wire' = wire

\* After it the commands left in the queue stay there unwritten, and the
\* pipe takes nothing from the connection and pushes nothing.
C16_Abandoned(n) ==
    (netpc[n] = "done" /\ exitwhy[n] = "writeerr") =>
        /\ netpc'[n] = "done" /\ exitwhy'[n] = "writeerr"
        /\ net_chan'[n] = net_chan[n]
        /\ written'[n] = written[n]
        /\ Len(wire'[n]) >= Len(wire[n])
        /\ ui_chan'[n] \in {ui_chan[n], <<>>}

\* The write-error line exists once, and only after a failed write.
C16_OneWriteErrLine ==
    \A n \in Node :
        LET c == Count(WriteError, messages[n] \o ui_chan[n]) IN
        /\ c <= 1
        /\ exitwhy[n] # "writeerr" => c = 0
        /\ (exitwhy[n] = "writeerr" /\ UiRxAlive(n)) => c = 1

\* C16: when a write fails during a drain, the Session Pipe pushes exactly
\* one write-error status line into the inbound display queue and ends at
\* once: the commands still in the outbound queue are not written, and
\* nothing more is read.
C16_WriteErrorEndsPipe ==
    /\ []C16_OneWriteErrLine
    /\ [][\A n \in Node : C16_WriteErrStep(n) /\ C16_Abandoned(n)]_vars

\* A write failed with a second command queued behind it: the status line
\* is in the history, the second command is still in the queue, unwritten.
C16_Witness ==
    \E n \in Node :
        /\ Running(n)
        /\ netpc[n] = "done" /\ exitwhy[n] = "writeerr"
        /\ net_chan[n] # <<>>
        /\ Len(sendlog[n]) = 2 /\ written[n] = <<>>
        /\ Count(WriteError, messages[n]) = 1

\* C17: handle_socket returns Ok only when it ended on a clean close by the
\* peer (end-of-stream); ended on a read error or a write error, it does
\* not return Ok.
C17_OkOnlyOnCleanClose ==
    \A n \in Node :
        (netpc[n] = "done" /\ exitwhy[n] \in {"readerr", "writeerr"})
            => netret[n] # "Ok"

\* The "connected" line of n's mode, and the status lines of a session.
ConnectedLine(n) == IF Mode(n) = "server" THEN ConnectedPeer ELSE ConnectedToServer
SessionStatus == {ClosedByPeer, ReadError, WriteError}

\* The step that starts the session puts the line into the display queue.
C18_StartStep(n) ==
    (netpc[n] \notin {"select", "drain"} /\ netpc'[n] \in {"select", "drain"}) =>
        /\ netpc'[n] = "select"
        /\ ui_chan'[n] = IF UiRxAlive(n) THEN Append(ui_chan[n], ConnectedLine(n))
                          ELSE ui_chan[n]

\* What the history holds and will hold: one "connected" line once the
\* session has started, none before, and it comes before every line of the
\* peer and every status line of the session.
C18_ConnectedLineFirst ==
    \A n \in Node :
        LET all == messages[n] \o ui_chan[n]
            c == Count(ConnectedPeer, all) + Count(ConnectedToServer, all)
        IN  /\ c <= 1
            /\ c = Count(ConnectedLine(n), all)
            /\ netpc[n] \notin {"select", "drain", "done"} => c = 0
            /\ (netpc[n] \in {"select", "drain", "done"} /\ UiRxAlive(n)) => c = 1
            /\ \A i \in 1..Len(all) :
                   (all[i] \in SessionStatus
                    \/ (all[i] \notin StatusLines
                        /\ ~HasPrefix(all[i], Name(n) \o <<":", " ">>)))
                       => \E j \in 1..(i - 1) : all[j] = ConnectedLine(n)

\* C18: on a successful establishment exactly one "connected" status line is
\* put into the inbound display queue before the Session Pipe starts, so in
\* the Message History it precedes every peer-authored line and every
\* status line of the session (closed, read error, write error).
C18_ConnectedBeforeSession ==
    /\ []C18_ConnectedLineFirst
    /\ [][\A n \in Node : C18_StartStep(n)]_vars

\* A history with an echo typed before the connection, then the "connected"
\* line, a line of the peer and the close.
C18_Witness ==
    \E n \in Node :
        /\ Len(messages[n]) >= 4
        /\ HasPrefix(messages[n][1], Name(n) \o <<":", " ">>)
        /\ messages[n][2] = ConnectedLine(n)
        /\ messages[n][3] = <<"x">>
        /\ messages[n][Len(messages[n])] = ClosedByPeer

\* C19, as stated: the Interactive Loop leaves Running only by a cancel
\* (Esc) key-press.
C19_OnlyCancelEndsLoop ==
    [][\A n \in Node :
          (uipc[n] \in {"loop", "send"} /\ uipc'[n] \notin {"loop", "send"})
              => UiLoopCycle(n, EscPress)]_vars

\* The loop starts in Running; it ends by the Esc press, which appends the
\* "exiting" line, or by the failure of the terminal, which appends nothing.
C19_EndStep(n) ==
    /\ (uipc[n] = "off" /\ uipc'[n] # "off") => uipc'[n] = "loop"
    /\ (uipc[n] \in {"loop", "send"} /\ uipc'[n] \notin {"loop", "send"}) =>
           /\ uipc[n] = "loop"
           /\ \/ /\ UiLoopCycle(n, EscPress)
                 /\ uipc'[n] = "exited"
                 /\ messages'[n] = (messages[n] \o ui_chan[n]) \o <<Exiting>>
              \/ /\ UiLoopFail(n)
                 /\ uipc'[n] = "failed"
                 /\ messages'[n] = messages[n] \o ui_chan[n]

\* No other key event, no event of another kind, no inbound line and no step
\* of the Session Pipe ends the loop.
C19_NothingElseEnds(n) ==
    /\ \A ev \in Events :
           (UiLoopCycle(n, ev) /\ ev # EscPress) => uipc'[n] \in {"loop", "send"}
    /\ (/\ uipc[n] \in {"loop", "send"}
        /\ netpc'[n] # netpc[n] \/ Len(ui_chan'[n]) > Len(ui_chan[n])) =>
           uipc'[n] = uipc[n]

\* Once the loop has ended, no cycle is performed: nothing is drained,
\* nothing is appended, no key is handled, nothing is enqueued.
C19_NoCycleAfter(n) ==
    uipc[n] \in {"exited", "failed"} =>
        /\ uipc'[n] = uipc[n]
        /\ messages'[n] = messages[n] /\ input'[n] = input[n]
        /\ ui_chan'[n] = ui_chan[n]
        /\ sendlog'[n] = sendlog[n]
        /\ Len(net_chan'[n]) <= Len(net_chan[n])

\* The "exiting" line is in the history once after the cancel, never else.
C19_ExitingLine ==
    \A n \in Node :
        Count(Exiting, messages[n] \o ui_chan[n])
            = IF uipc[n] = "exited" THEN 1 ELSE 0

\* C19, amended: the Interactive Loop starts in Running and leaves Running
\* only by a cancel (Esc) key-press, which appends one "exiting" status line
\* to the Message History, or by a failure of the rendering or of the
\* terminal I/O, which returns the error without that line; no other key,
\* key release event, inbound line or end of the Session Pipe ends the loop,
\* and once it has ended no further cycle is performed.
C19_CancelOrFailureEndsLoop ==
    /\ []C19_ExitingLine
    /\ [][\A n \in Node :
             C19_EndStep(n) /\ C19_NothingElseEnds(n) /\ C19_NoCycleAfter(n)]_vars

\* The loop outlived the end of the Session Pipe and was then cancelled.
C19_Witness ==
    \E n \in Node :
        /\ uipc[n] = "exited" /\ Running(n)
        /\ netpc[n] = "done"
        /\ Count(ClosedByPeer, messages[n]) = 1
        /\ messages[n][Len(messages[n])] = Exiting

\* Every text submitted is written or still queued, in the order of the
\* submissions, as long as the background task has not ended; before the
\* connection is established all of them are queued.
C20_WrittenOrQueued ==
    \A n \in Node :
        (IsProgram(n) /\ netpc[n] \notin {"done", "failed"}) =>
            /\ Len(written[n]) + Len(net_chan[n]) = Len(sendlog[n])
            /\ \A i \in 1..Len(written[n]) :
                   written[n][i] = Name(n) \o <<":", " ">> \o sendlog[n][i] \o <<"\n">>
            /\ \A i \in 1..Len(net_chan[n]) :
                   net_chan[n][i] = sendlog[n][Len(written[n]) + i]
            /\ netpc[n] \in {"idle", "bind", "accept", "connect"} =>
                   (written[n] = <<>> /\ net_chan[n] = sendlog[n])

\* A submission before the establishment is queued, and the drain of a tick
\* ends with every submitted text written.
C20_Steps(n) ==
    /\ (netpc[n] \in {"bind", "accept", "connect"} /\ UiLoopSend(n)) =>
           net_chan'[n] = Append(net_chan[n], input[n])
    /\ (netpc[n] = "drain" /\ netpc'[n] = "select") =>
           Len(written[n]) = Len(sendlog[n])

=============================================================================
